---- MODULE Spec2Model ----
(***************************************************************************)
(* HRV_web_poc: hrv_core.py (baseline table, numeric utilities, record     *)
(* parser, derivation, classifier, summary) and app.py (Flask routes with  *)
(* the module-level "last result" cache).                                  *)
(*                                                                         *)
(* Encoding of Python values                                               *)
(*   float      [k |-> "num", v |-> n]  n an integer in the unit of the    *)
(*              quantity (see each operator), or [k |-> "nan", v |-> 0],   *)
(*              or [k |-> "inf", v |-> s] for the infinity of sign s.      *)
(*              Natural logs are in 1/1000000, the baseline table and the  *)
(*              distance D' work in 1/1000, rounded row fields in 1/100.   *)
(*              The BMI arithmetic is carried out in binary64 itself.      *)
(*   str (Sex)  a sequence of one-character strings; "M" stands for the    *)
(*              token U+7537 (male), "F" for U+5973 (female), " " for      *)
(*              white space.                                               *)
(*   labels     "YangShi" U+967D U+5BE6 U+578B, "YinShi" U+9670 U+5BE6     *)
(*              U+578B, "YangXu" U+967D U+865B U+578B, "YinXu" U+9670      *)
(*              U+865B U+578B, "ZiLiaoBuZu" U+8CC7 U+6599 U+4E0D U+8DB3.   *)
(***************************************************************************)
EXTENDS Integers, Sequences, FiniteSets, TLC

VARIABLES
    call, ret,                      \* a direct call of a pure function of hrv_core
    xml_text, attrib, result,       \* parse_hrv_xml_to_row: input text, attributes, outcome
    summary,                        \* build_overall_summary: the clauses emitted
    last_row, last_quad_img_b64, last_advice,   \* app.py module-level cache
    pc, local, resp, mine,          \* app.py: per-client request in flight
    parsed_row                      \* history: the row of the latest POST whose parse succeeded

vars == <<call, ret, xml_text, attrib, result, summary,
          last_row, last_quad_img_b64, last_advice, pc, local, resp, mine,
          parsed_row>>

coreVars == <<call, ret>>
parseVars == <<xml_text, attrib, result, summary>>
webVars == <<last_row, last_quad_img_b64, last_advice, pc, local, resp, mine,
            parsed_row>>

(***************************************************************************)
(* Floats                                                                  *)
(***************************************************************************)
NaN == [k |-> "nan", v |-> 0]
Num(n) == [k |-> "num", v |-> n]
IsNaN(x) == x.k = "nan"
PosInf == [k |-> "inf", v |-> 1]

\* IEEE comparisons of x with a finite y: every comparison with NaN is false.
FGe(x, y) == \/ x.k = "num" /\ y.k = "num" /\ x.v >= y.v
             \/ x.k = "inf" /\ y.k = "num" /\ x.v > 0
FLt(x, y) == \/ x.k = "num" /\ y.k = "num" /\ x.v < y.v
             \/ x.k = "inf" /\ y.k = "num" /\ x.v < 0

(***************************************************************************)
(* Strings (Sex): str.strip()                                              *)
(***************************************************************************)
RECURSIVE LStrip(_)
LStrip(s) == IF s # <<>> /\ Head(s) = " " THEN LStrip(Tail(s)) ELSE s

RECURSIVE RStrip(_)
RStrip(s) ==
    IF s # <<>> /\ s[Len(s)] = " " THEN RStrip(SubSeq(s, 1, Len(s) - 1)) ELSE s

Strip(s) == RStrip(LStrip(s))

PyNoneStr == [k |-> "none", s |-> <<>>]
PyStr(s) == [k |-> "str", s |-> s]
PyNoneInt == [k |-> "none", v |-> 0]
PyInt(n) == [k |-> "int", v |-> n]

\* `x or default` on an optional str / int: None, "" and 0 are falsy.
StrOr(x, d) == IF x.k = "none" \/ x.s = <<>> THEN d ELSE x.s
IntOr(x, d) == IF x.k = "none" \/ x.v = 0 THEN d ELSE x.v

(***************************************************************************)
(* Population baseline table (ln TP, in 1/1000)                            *)
(***************************************************************************)
Male == <<"M">>
Female == <<"F">>

TP_BASE(sex) ==
    IF sex = Male
    THEN << <<29, 6800, 500>>, <<39, 6500, 500>>, <<49, 6200, 600>>,
            <<59, 5800, 600>>, <<69, 5500, 700>>, <<200, 5200, 700>> >>
    ELSE << <<29, 6600, 500>>, <<39, 6400, 500>>, <<49, 6000, 500>>,
            <<59, 5600, 500>>, <<69, 5200, 500>>, <<200, 4900, 500>> >>

InTP_BASE(sex) == sex = Male \/ sex = Female

Fallback == <<6000, 500>>

\* the for loop of get_tp_mu_sigma from bracket i on
RECURSIVE ScanBrackets(_, _, _)
ScanBrackets(table, i, age) ==
    IF i > Len(table) THEN Fallback
    ELSE IF age <= table[i][1] THEN <<table[i][2], table[i][3]>>
    ELSE ScanBrackets(table, i + 1, age)

\* get_tp_mu_sigma(age, sex): age an int, sex an optional str; <<mu, sigma>>
get_tp_mu_sigma(age, sex) ==
    LET s0 == Strip(StrOr(sex, <<>>))
        s == IF InTP_BASE(s0) THEN s0 ELSE Male
    IN  ScanBrackets(TP_BASE(s), 1, age)

(***************************************************************************)
(* Classifier                                                              *)
(***************************************************************************)
Labels4 == {"YangShi", "YinShi", "YangXu", "YinXu"}
Insufficient == "ZiLiaoBuZu"

\* lines 197-203; ln_tp and ln_ratio in 1/1000000, mu in 1/1000
Quadrant(ln_tp, ln_ratio, mu) ==
    IF FGe(ln_tp, Num(mu * 1000)) /\ FGe(ln_ratio, Num(0)) THEN "YangShi"
    ELSE IF FGe(ln_tp, Num(mu * 1000)) /\ FLt(ln_ratio, Num(0)) THEN "YinShi"
    ELSE IF FLt(ln_tp, Num(mu * 1000)) /\ FGe(ln_ratio, Num(0)) THEN "YangXu"
    ELSE "YinXu"

\* classify_constitution with the NaN test requiring both axes to be NaN
classify_constitution_and(ln_tp, ln_ratio, sex, age) ==
    IF IsNaN(ln_tp) /\ IsNaN(ln_ratio) THEN Insufficient
    ELSE LET a == IntOr(age, 40)
             s == StrOr(sex, Male)
             mu == get_tp_mu_sigma(a, PyStr(s))[1]
         IN  Quadrant(ln_tp, ln_ratio, mu)

\* classify_constitution(ln_tp, ln_ratio, sex=None, age=None)
classify_constitution(ln_tp, ln_ratio, sex, age) ==
    IF IsNaN(ln_tp) \/ IsNaN(ln_ratio) THEN Insufficient
    ELSE LET a == IntOr(age, 40)
             s == StrOr(sex, Male)
             mu == get_tp_mu_sigma(a, PyStr(s))[1]
         IN  Quadrant(ln_tp, ln_ratio, mu)

(***************************************************************************)
(* Numeric utilities                                                       *)
(*                                                                         *)
(* An attribute value as found in the document:                            *)
(*   [t |-> "missing"]  the attribute is absent                            *)
(*   [t |-> "text"]     present, not a number (also the empty string)      *)
(*   [t |-> "dec", v]   a decimal numeral of value v in the attribute's    *)
(*                      unit: TP, VL, LF, HF, Weight in 1; Height in 1/10; *)
(*                      Age, ANSAgeMIN, ANSAgeMAX in 1/10                  *)
(*   [t |-> "tiny"]     a positive numeral whose square underflows to 0.0  *)
(*                      in binary64, such as 1e-200                        *)
(*   [t |-> "huge"]     a positive numeral whose square exceeds binary64,  *)
(*                      such as 1e200                                      *)
(*   [t |-> "inf"]      the numeral inf, which float() accepts             *)
(***************************************************************************)
Missing == [t |-> "missing", v |-> 0]
Text == [t |-> "text", v |-> 0]
Dec(n) == [t |-> "dec", v |-> n]
Tiny == [t |-> "tiny", v |-> 0]
Huge == [t |-> "huge", v |-> 0]
Infinity == [t |-> "inf", v |-> 0]

\* attr.get(name, 0) / attr.get(name, 0.0): the default is the number zero
AttrGet(attr, name) == IF attr[name].t = "missing" THEN Dec(0) ELSE attr[name]

\* safe_float(x, default=0.0): float(x), the default when float() raises
safe_float(x) ==
    CASE x.t = "dec" -> [k |-> "num", v |-> x.v]
      [] x.t = "tiny" -> [k |-> "tiny", v |-> 0]
      [] x.t = "huge" -> [k |-> "huge", v |-> 0]
      [] x.t = "inf" -> PosInf
      [] OTHER -> [k |-> "num", v |-> 0]

\* int(): truncation toward zero of a value given in 1/10
Trunc10(v) == IF v >= 0 THEN v \div 10 ELSE -((-v) \div 10)

\* safe_int(x, default=0): int(float(x)), the default when it raises
safe_int(x) ==
    CASE x.t = "dec" -> Trunc10(x.v)
      [] x.t = "tiny" -> 0
      [] x.t = "text" -> 0

\* round(1000000 * math.log(n)) for n = 1 .. 1200
LnTable == <<
    0, 693147, 1098612, 1386294, 1609438, 1791759, 1945910, 2079442, 2197225, 2302585,
    2397895, 2484907, 2564949, 2639057, 2708050, 2772589, 2833213, 2890372, 2944439, 2995732,
    3044522, 3091042, 3135494, 3178054, 3218876, 3258097, 3295837, 3332205, 3367296, 3401197,
    3433987, 3465736, 3496508, 3526361, 3555348, 3583519, 3610918, 3637586, 3663562, 3688879,
    3713572, 3737670, 3761200, 3784190, 3806662, 3828641, 3850148, 3871201, 3891820, 3912023,
    3931826, 3951244, 3970292, 3988984, 4007333, 4025352, 4043051, 4060443, 4077537, 4094345,
    4110874, 4127134, 4143135, 4158883, 4174387, 4189655, 4204693, 4219508, 4234107, 4248495,
    4262680, 4276666, 4290459, 4304065, 4317488, 4330733, 4343805, 4356709, 4369448, 4382027,
    4394449, 4406719, 4418841, 4430817, 4442651, 4454347, 4465908, 4477337, 4488636, 4499810,
    4510860, 4521789, 4532599, 4543295, 4553877, 4564348, 4574711, 4584967, 4595120, 4605170,
    4615121, 4624973, 4634729, 4644391, 4653960, 4663439, 4672829, 4682131, 4691348, 4700480,
    4709530, 4718499, 4727388, 4736198, 4744932, 4753590, 4762174, 4770685, 4779123, 4787492,
    4795791, 4804021, 4812184, 4820282, 4828314, 4836282, 4844187, 4852030, 4859812, 4867534,
    4875197, 4882802, 4890349, 4897840, 4905275, 4912655, 4919981, 4927254, 4934474, 4941642,
    4948760, 4955827, 4962845, 4969813, 4976734, 4983607, 4990433, 4997212, 5003946, 5010635,
    5017280, 5023881, 5030438, 5036953, 5043425, 5049856, 5056246, 5062595, 5068904, 5075174,
    5081404, 5087596, 5093750, 5099866, 5105945, 5111988, 5117994, 5123964, 5129899, 5135798,
    5141664, 5147494, 5153292, 5159055, 5164786, 5170484, 5176150, 5181784, 5187386, 5192957,
    5198497, 5204007, 5209486, 5214936, 5220356, 5225747, 5231109, 5236442, 5241747, 5247024,
    5252273, 5257495, 5262690, 5267858, 5273000, 5278115, 5283204, 5288267, 5293305, 5298317,
    5303305, 5308268, 5313206, 5318120, 5323010, 5327876, 5332719, 5337538, 5342334, 5347108,
    5351858, 5356586, 5361292, 5365976, 5370638, 5375278, 5379897, 5384495, 5389072, 5393628,
    5398163, 5402677, 5407172, 5411646, 5416100, 5420535, 5424950, 5429346, 5433722, 5438079,
    5442418, 5446737, 5451038, 5455321, 5459586, 5463832, 5468060, 5472271, 5476464, 5480639,
    5484797, 5488938, 5493061, 5497168, 5501258, 5505332, 5509388, 5513429, 5517453, 5521461,
    5525453, 5529429, 5533389, 5537334, 5541264, 5545177, 5549076, 5552960, 5556828, 5560682,
    5564520, 5568345, 5572154, 5575949, 5579730, 5583496, 5587249, 5590987, 5594711, 5598422,
    5602119, 5605802, 5609472, 5613128, 5616771, 5620401, 5624018, 5627621, 5631212, 5634790,
    5638355, 5641907, 5645447, 5648974, 5652489, 5655992, 5659482, 5662960, 5666427, 5669881,
    5673323, 5676754, 5680173, 5683580, 5686975, 5690359, 5693732, 5697093, 5700444, 5703782,
    5707110, 5710427, 5713733, 5717028, 5720312, 5723585, 5726848, 5730100, 5733341, 5736572,
    5739793, 5743003, 5746203, 5749393, 5752573, 5755742, 5758902, 5762051, 5765191, 5768321,
    5771441, 5774552, 5777652, 5780744, 5783825, 5786897, 5789960, 5793014, 5796058, 5799093,
    5802118, 5805135, 5808142, 5811141, 5814131, 5817111, 5820083, 5823046, 5826000, 5828946,
    5831882, 5834811, 5837730, 5840642, 5843544, 5846439, 5849325, 5852202, 5855072, 5857933,
    5860786, 5863631, 5866468, 5869297, 5872118, 5874931, 5877736, 5880533, 5883322, 5886104,
    5888878, 5891644, 5894403, 5897154, 5899897, 5902633, 5905362, 5908083, 5910797, 5913503,
    5916202, 5918894, 5921578, 5924256, 5926926, 5929589, 5932245, 5934894, 5937536, 5940171,
    5942799, 5945421, 5948035, 5950643, 5953243, 5955837, 5958425, 5961005, 5963579, 5966147,
    5968708, 5971262, 5973810, 5976351, 5978886, 5981414, 5983936, 5986452, 5988961, 5991465,
    5993961, 5996452, 5998937, 6001415, 6003887, 6006353, 6008813, 6011267, 6013715, 6016157,
    6018593, 6021023, 6023448, 6025866, 6028279, 6030685, 6033086, 6035481, 6037871, 6040255,
    6042633, 6045005, 6047372, 6049733, 6052089, 6054439, 6056784, 6059123, 6061457, 6063785,
    6066108, 6068426, 6070738, 6073045, 6075346, 6077642, 6079933, 6082219, 6084499, 6086775,
    6089045, 6091310, 6093570, 6095825, 6098074, 6100319, 6102559, 6104793, 6107023, 6109248,
    6111467, 6113682, 6115892, 6118097, 6120297, 6122493, 6124683, 6126869, 6129050, 6131226,
    6133398, 6135565, 6137727, 6139885, 6142037, 6144186, 6146329, 6148468, 6150603, 6152733,
    6154858, 6156979, 6159095, 6161207, 6163315, 6165418, 6167516, 6169611, 6171701, 6173786,
    6175867, 6177944, 6180017, 6182085, 6184149, 6186209, 6188264, 6190315, 6192362, 6194405,
    6196444, 6198479, 6200509, 6202536, 6204558, 6206576, 6208590, 6210600, 6212606, 6214608,
    6216606, 6218600, 6220590, 6222576, 6224558, 6226537, 6228511, 6230481, 6232448, 6234411,
    6236370, 6238325, 6240276, 6242223, 6244167, 6246107, 6248043, 6249975, 6251904, 6253829,
    6255750, 6257668, 6259581, 6261492, 6263398, 6265301, 6267201, 6269096, 6270988, 6272877,
    6274762, 6276643, 6278521, 6280396, 6282267, 6284134, 6285998, 6287859, 6289716, 6291569,
    6293419, 6295266, 6297109, 6298949, 6300786, 6302619, 6304449, 6306275, 6308098, 6309918,
    6311735, 6313548, 6315358, 6317165, 6318968, 6320768, 6322565, 6324359, 6326149, 6327937,
    6329721, 6331502, 6333280, 6335054, 6336826, 6338594, 6340359, 6342121, 6343880, 6345636,
    6347389, 6349139, 6350886, 6352629, 6354370, 6356108, 6357842, 6359574, 6361302, 6363028,
    6364751, 6366470, 6368187, 6369901, 6371612, 6373320, 6375025, 6376727, 6378426, 6380123,
    6381816, 6383507, 6385194, 6386879, 6388561, 6390241, 6391917, 6393591, 6395262, 6396930,
    6398595, 6400257, 6401917, 6403574, 6405228, 6406880, 6408529, 6410175, 6411818, 6413459,
    6415097, 6416732, 6418365, 6419995, 6421622, 6423247, 6424869, 6426488, 6428105, 6429719,
    6431331, 6432940, 6434547, 6436150, 6437752, 6439350, 6440947, 6442540, 6444131, 6445720,
    6447306, 6448889, 6450470, 6452049, 6453625, 6455199, 6456770, 6458338, 6459904, 6461468,
    6463029, 6464588, 6466145, 6467699, 6469250, 6470800, 6472346, 6473891, 6475433, 6476972,
    6478510, 6480045, 6481577, 6483107, 6484635, 6486161, 6487684, 6489205, 6490724, 6492240,
    6493754, 6495266, 6496775, 6498282, 6499787, 6501290, 6502790, 6504288, 6505784, 6507278,
    6508769, 6510258, 6511745, 6513230, 6514713, 6516193, 6517671, 6519147, 6520621, 6522093,
    6523562, 6525030, 6526495, 6527958, 6529419, 6530878, 6532334, 6533789, 6535241, 6536692,
    6538140, 6539586, 6541030, 6542472, 6543912, 6545350, 6546785, 6548219, 6549651, 6551080,
    6552508, 6553933, 6555357, 6556778, 6558198, 6559615, 6561031, 6562444, 6563856, 6565265,
    6566672, 6568078, 6569481, 6570883, 6572283, 6573680, 6575076, 6576470, 6577861, 6579251,
    6580639, 6582025, 6583409, 6584791, 6586172, 6587550, 6588926, 6590301, 6591674, 6593045,
    6594413, 6595781, 6597146, 6598509, 6599870, 6601230, 6602588, 6603944, 6605298, 6606650,
    6608001, 6609349, 6610696, 6612041, 6613384, 6614726, 6616065, 6617403, 6618739, 6620073,
    6621406, 6622736, 6624065, 6625392, 6626718, 6628041, 6629363, 6630683, 6632002, 6633318,
    6634633, 6635947, 6637258, 6638568, 6639876, 6641182, 6642487, 6643790, 6645091, 6646391,
    6647688, 6648985, 6650279, 6651572, 6652863, 6654153, 6655440, 6656727, 6658011, 6659294,
    6660575, 6661855, 6663133, 6664409, 6665684, 6666957, 6668228, 6669498, 6670766, 6672033,
    6673298, 6674561, 6675823, 6677083, 6678342, 6679599, 6680855, 6682109, 6683361, 6684612,
    6685861, 6687109, 6688355, 6689599, 6690842, 6692084, 6693324, 6694562, 6695799, 6697034,
    6698268, 6699500, 6700731, 6701960, 6703188, 6704414, 6705639, 6706862, 6708084, 6709304,
    6710523, 6711740, 6712956, 6714171, 6715383, 6716595, 6717805, 6719013, 6720220, 6721426,
    6722630, 6723832, 6725034, 6726233, 6727432, 6728629, 6729824, 6731018, 6732211, 6733402,
    6734592, 6735780, 6736967, 6738152, 6739337, 6740519, 6741701, 6742881, 6744059, 6745236,
    6746412, 6747587, 6748760, 6749931, 6751101, 6752270, 6753438, 6754604, 6755769, 6756932,
    6758095, 6759255, 6760415, 6761573, 6762730, 6763885, 6765039, 6766192, 6767343, 6768493,
    6769642, 6770789, 6771936, 6773080, 6774224, 6775366, 6776507, 6777647, 6778785, 6779922,
    6781058, 6782192, 6783325, 6784457, 6785588, 6786717, 6787845, 6788972, 6790097, 6791221,
    6792344, 6793466, 6794587, 6795706, 6796824, 6797940, 6799056, 6800170, 6801283, 6802395,
    6803505, 6804615, 6805723, 6806829, 6807935, 6809039, 6810142, 6811244, 6812345, 6813445,
    6814543, 6815640, 6816736, 6817831, 6818924, 6820016, 6821107, 6822197, 6823286, 6824374,
    6825460, 6826545, 6827629, 6828712, 6829794, 6830874, 6831954, 6833032, 6834109, 6835185,
    6836259, 6837333, 6838405, 6839476, 6840547, 6841615, 6842683, 6843750, 6844815, 6845880,
    6846943, 6848005, 6849066, 6850126, 6851185, 6852243, 6853299, 6854355, 6855409, 6856462,
    6857514, 6858565, 6859615, 6860664, 6861711, 6862758, 6863803, 6864848, 6865891, 6866933,
    6867974, 6869014, 6870053, 6871091, 6872128, 6873164, 6874198, 6875232, 6876265, 6877296,
    6878326, 6879356, 6880384, 6881411, 6882437, 6883463, 6884487, 6885510, 6886532, 6887553,
    6888572, 6889591, 6890609, 6891626, 6892642, 6893656, 6894670, 6895683, 6896694, 6897705,
    6898715, 6899723, 6900731, 6901737, 6902743, 6903747, 6904751, 6905753, 6906755, 6907755,
    6908755, 6909753, 6910751, 6911747, 6912743, 6913737, 6914731, 6915723, 6916715, 6917706,
    6918695, 6919684, 6920672, 6921658, 6922644, 6923629, 6924612, 6925595, 6926577, 6927558,
    6928538, 6929517, 6930495, 6931472, 6932448, 6933423, 6934397, 6935370, 6936343, 6937314,
    6938284, 6939254, 6940222, 6941190, 6942157, 6943122, 6944087, 6945051, 6946014, 6946976,
    6947937, 6948897, 6949856, 6950815, 6951772, 6952729, 6953684, 6954639, 6955593, 6956545,
    6957497, 6958448, 6959399, 6960348, 6961296, 6962243, 6963190, 6964136, 6965080, 6966024,
    6966967, 6967909, 6968850, 6969791, 6970730, 6971669, 6972606, 6973543, 6974479, 6975414,
    6976348, 6977281, 6978214, 6979145, 6980076, 6981006, 6981935, 6982863, 6983790, 6984716,
    6985642, 6986566, 6987490, 6988413, 6989335, 6990257, 6991177, 6992096, 6993015, 6993933,
    6994850, 6995766, 6996681, 6997596, 6998510, 6999422, 7000334, 7001246, 7002156, 7003065,
    7003974, 7004882, 7005789, 7006695, 7007601, 7008505, 7009409, 7010312, 7011214, 7012115,
    7013016, 7013915, 7014814, 7015712, 7016610, 7017506, 7018402, 7019297, 7020191, 7021084,
    7021976, 7022868, 7023759, 7024649, 7025538, 7026427, 7027315, 7028201, 7029088, 7029973,
    7030857, 7031741, 7032624, 7033506, 7034388, 7035269, 7036148, 7037028, 7037906, 7038784,
    7039660, 7040536, 7041412, 7042286, 7043160, 7044033, 7044905, 7045777, 7046647, 7047517,
    7048386, 7049255, 7050123, 7050989, 7051856, 7052721, 7053586, 7054450, 7055313, 7056175,
    7057037, 7057898, 7058758, 7059618, 7060476, 7061334, 7062192, 7063048, 7063904, 7064759,
    7065613, 7066467, 7067320, 7068172, 7069023, 7069874, 7070724, 7071573, 7072422, 7073270,
    7074117, 7074963, 7075809, 7076654, 7077498, 7078342, 7079184, 7080026, 7080868, 7081709,
    7082549, 7083388, 7084226, 7085064, 7085901, 7086738, 7087574, 7088409, 7089243, 7090077 >>
\* math.log of a positive integer, in 1/1000000
LnMicro(n) == LnTable[n]

Abs(n) == IF n < 0 THEN -n ELSE n

\* safe_ln(x) for x an integer-valued float or an infinity
safe_ln(x) ==
    IF x.k = "inf" THEN (IF x.v > 0 THEN PosInf ELSE NaN)
    ELSE IF x.k # "num" THEN NaN
    ELSE IF x.v <= 0 THEN NaN
    ELSE Num(LnMicro(x.v))

\* safe_ln(n / d) for the quotient of two integer-valued floats, d # 0:
\* ln of the quotient as the difference of the logs (within 1/1000000)
safe_ln_quot(n, d) ==
    IF (n <= 0 /\ d > 0) \/ (n >= 0 /\ d < 0) THEN NaN
    ELSE Num(LnMicro(Abs(n)) - LnMicro(Abs(d)))

\* round(): a / b (b > 0) rounded to the nearest integer, ties to even
RoundHalfEven(a, b) ==
    LET q == a \div b
        r == a % b
    IN  IF 2 * r < b THEN q
        ELSE IF 2 * r > b THEN q + 1
        ELSE IF q % 2 = 0 THEN q ELSE q + 1

RECURSIVE SqrtSearch(_, _, _)
SqrtSearch(n, lo, hi) ==
    IF lo >= hi THEN lo
    ELSE LET mid == (lo + hi + 1) \div 2
         IN  IF mid * mid <= n THEN SqrtSearch(n, mid, hi)
             ELSE SqrtSearch(n, lo, mid - 1)

\* floor(math.sqrt(n)) for 0 <= n < 2^30
ISqrt(n) == SqrtSearch(n, 0, 32767)

(***************************************************************************)
(* TP_Q and the weighted distance D'                                       *)
(***************************************************************************)
\* a quotient n / d of integers (d > 0), or NaN, or the infinity of sign n
Quot(n, d) == [k |-> "num", n |-> n, d |-> d]
QNaN == [k |-> "nan", n |-> 0, d |-> 1]
QInf(s) == [k |-> "inf", n |-> s, d |-> 1]

\* round(q, 2): the quotient in 1/100, or NaN, or the infinity
Round2(q) ==
    IF q.k = "nan" THEN NaN
    ELSE IF q.k = "inf" THEN [k |-> "inf", v |-> q.n]
    ELSE IF q.n >= 0
         THEN Num((q.n \div q.d) * 100 + RoundHalfEven((q.n % q.d) * 100, q.d))
         ELSE Num(-(((-q.n) \div q.d) * 100 + RoundHalfEven(((-q.n) % q.d) * 100, q.d)))

\* a value in 1/1000000 rounded to units of unit/1000000
RoundMicro(v, unit) ==
    IF v >= 0 THEN RoundHalfEven(v, unit) ELSE -RoundHalfEven(-v, unit)

\* round(x, 2) of a value in 1/1000000, in 1/100
Round2Micro(x) ==
    IF IsNaN(x) THEN NaN ELSE IF x.k = "inf" THEN x ELSE Num(RoundMicro(x.v, 10000))

\* tp_quality(tp, lf, hf, vl) = tp * (lf + hf) / (lf + hf + vl), for finite
\* lf, hf and vl; an infinite tp times eff is infinite, or NaN when eff is 0
tp_quality(tp, lf, hf, vl) ==
    IF tp.k \notin {"num", "inf"} \/ \E f \in {lf, hf, vl} : f.k # "num" THEN QNaN
    ELSE LET denom == lf.v + hf.v + vl.v
         IN  IF denom <= 0 THEN QNaN
             ELSE IF tp.k = "num" THEN Quot(tp.v * (lf.v + hf.v), denom)
             ELSE IF lf.v + hf.v = 0 THEN QNaN
             ELSE QInf(IF lf.v + hf.v > 0 THEN tp.v ELSE -tp.v)

\* safe_ln(tp_q): ln(tp) + ln(lf + hf) - ln(denom), within 2/1000000
safe_ln_tpq(tp, lf, hf, vl) ==
    LET q == tp_quality(tp, lf, hf, vl)
    IN  IF q.k = "nan" \/ q.n <= 0 THEN NaN
        ELSE IF q.k = "inf" THEN PosInf
        ELSE Num(LnMicro(Abs(tp.v)) + LnMicro(Abs(lf.v + hf.v)) - LnMicro(q.d))

\* compute_weighted_distance(ln_ratio, ln_tpq, age, sex, w1=0.6, w2=0.4), in 1/100
compute_weighted_distance(ln_ratio, ln_tpq, age, sex) ==
    LET mu == get_tp_mu_sigma(age, PyStr(sex))[1]
    IN  IF IsNaN(ln_ratio) \/ IsNaN(ln_tpq) THEN NaN
        ELSE IF ln_tpq.k = "inf" THEN PosInf
        ELSE LET dx == RoundMicro(ln_ratio.v, 1000)
                 dy == RoundMicro(ln_tpq.v, 1000) - mu
             IN  Num((ISqrt((6 * dx * dx + 4 * dy * dy) \div 250) + 1) \div 2)

(***************************************************************************)
(* IEEE-754 binary64, the float of CPython, for the BMI arithmetic.         *)
(*                                                                         *)
(* A natural number of any size is the sequence of its digits in base      *)
(* 2^15 = 32768, least significant first, without leading zeros.           *)
(***************************************************************************)
\* Op applied to the value of v, so that v is evaluated once
Let1(v, Op(_)) == CHOOSE r \in {Op(x) : x \in {v}} : TRUE

RECURSIVE Big(_)
Big(n) == IF n = 0 THEN <<>> ELSE <<n % 32768>> \o Big(n \div 32768)

RECURSIVE BigToInt(_)
BigToInt(a) == IF a = <<>> THEN 0 ELSE Head(a) + 32768 * BigToInt(Tail(a))

RECURSIVE BNorm(_)
BNorm(a) ==
    IF a # <<>> /\ a[Len(a)] = 0 THEN BNorm(SubSeq(a, 1, Len(a) - 1)) ELSE a

RECURSIVE BAddC(_, _, _)
BAddC(a, b, c) ==
    IF a = <<>> /\ b = <<>> THEN (IF c = 0 THEN <<>> ELSE <<c>>)
    ELSE LET x == IF a = <<>> THEN 0 ELSE Head(a)
             y == IF b = <<>> THEN 0 ELSE Head(b)
             ta == IF a = <<>> THEN <<>> ELSE Tail(a)
             tb == IF b = <<>> THEN <<>> ELSE Tail(b)
         IN  <<(x + y + c) % 32768>> \o BAddC(ta, tb, (x + y + c) \div 32768)

BAdd(a, b) == Let1(a, LAMBDA a1 : Let1(b, LAMBDA b1 : BAddC(a1, b1, 0)))

\* a - b - c for a >= b + c
RECURSIVE BSubB(_, _, _)
BSubB(a, b, c) ==
    IF a = <<>> THEN <<>>
    ELSE LET y == IF b = <<>> THEN 0 ELSE Head(b)
             tb == IF b = <<>> THEN <<>> ELSE Tail(b)
             d == Head(a) - y - c
         IN  <<(d + 32768) % 32768>> \o BSubB(Tail(a), tb, IF d < 0 THEN 1 ELSE 0)

BSub(a, b) == Let1(a, LAMBDA a1 : Let1(b, LAMBDA b1 : BNorm(BSubB(a1, b1, 0))))

RECURSIVE BCmpFrom(_, _, _)
BCmpFrom(a, b, i) ==
    IF i = 0 THEN 0
    ELSE IF a[i] < b[i] THEN -1
    ELSE IF a[i] > b[i] THEN 1
    ELSE BCmpFrom(a, b, i - 1)

\* the sign of a - b
BCmp(a, b) ==
    Let1(a, LAMBDA a1 : Let1(b, LAMBDA b1 :
        IF Len(a1) < Len(b1) THEN -1
        ELSE IF Len(a1) > Len(b1) THEN 1
        ELSE BCmpFrom(a1, b1, Len(a1))))

\* a * k + c for 0 <= k, c < 32768
RECURSIVE BMulSmallC(_, _, _)
BMulSmallC(a, k, c) ==
    IF a = <<>> THEN (IF c = 0 THEN <<>> ELSE <<c>>)
    ELSE <<(Head(a) * k + c) % 32768>>
         \o BMulSmallC(Tail(a), k, (Head(a) * k + c) \div 32768)

BMulSmall(a, k) ==
    Let1(a, LAMBDA a1 : Let1(k, LAMBDA k1 :
        IF k1 = 0 THEN <<>> ELSE BMulSmallC(a1, k1, 0)))

\* a * 32768^w
BShlDigits(a, w) ==
    Let1(a, LAMBDA a1 : IF a1 = <<>> \/ w = 0 THEN a1 ELSE [i \in 1..w |-> 0] \o a1)

RECURSIVE BMul(_, _)
BMul(a, b) ==
    Let1(a, LAMBDA a1 : Let1(b, LAMBDA b1 :
        IF a1 = <<>> \/ b1 = <<>> THEN <<>>
        ELSE BAdd(BMulSmall(a1, Head(b1)), BShlDigits(BMul(a1, Tail(b1)), 1))))

\* a * 2^k
BShl(a, k) == Let1(k, LAMBDA k1 : BMulSmall(BShlDigits(a, k1 \div 15), 2^(k1 % 15)))

\* the number of bits of n < 32768, and of a
RECURSIVE SmallBits(_)
SmallBits(n) == IF n = 0 THEN 0 ELSE 1 + SmallBits(n \div 2)
BitLen(a) ==
    Let1(a, LAMBDA a1 :
        IF a1 = <<>> THEN 0 ELSE 15 * (Len(a1) - 1) + SmallBits(a1[Len(a1)]))

\* the digit r \div d for r < d * 32768 and a d whose top digit is at least
\* 16384: the quotient of the top digits is at most 2 too large
QuotDigit(r, d) ==
    Let1(IF Len(r) < Len(d) THEN 0
         ELSE IF Len(r) = Len(d) THEN r[Len(r)] \div d[Len(d)]
         ELSE IF r[Len(r)] >= d[Len(d)] THEN 32767
         ELSE (r[Len(r)] * 32768 + r[Len(r) - 1]) \div d[Len(d)], LAMBDA t :
        IF BCmp(BMulSmall(d, t), r) <= 0 THEN t
        ELSE IF BCmp(BMulSmall(d, t - 1), r) <= 0 THEN t - 1
        ELSE t - 2)

\* long division of n by d: the digits of n from digit i down, with the
\* quotient q and the remainder r of the digits above
RECURSIVE BDivStep(_, _, _, _, _)
BDivStep(n, d, i, q, r) ==
    IF i = 0 THEN [q |-> BNorm(q), r |-> r, d |-> d]
    ELSE Let1(BNorm(<<n[i]>> \o r), LAMBDA r1 :
         Let1(QuotDigit(r1, d), LAMBDA t :
             BDivStep(n, d, i - 1, <<t>> \o q, BSub(r1, BMulSmall(d, t)))))

\* n \div d as q, with the remainder r and the divisor d both scaled by the
\* power of two that brings the top digit of d to 16384 or more
BDivMod(n, d) ==
    Let1(15 - SmallBits(d[Len(d)]), LAMBDA k :
    Let1(BShl(n, k), LAMBDA n1 : Let1(BShl(d, k), LAMBDA d1 :
        BDivStep(n1, d1, Len(n1), <<>>, <<>>))))

\* n / d rounded to the nearest integer, ties to even
BRoundDiv(n, d) ==
    Let1(BDivMod(n, d), LAMBDA qr :
    Let1(BCmp(BShl(qr.r, 1), qr.d), LAMBDA c :
        IF c > 0 \/ (c = 0 /\ qr.q # <<>> /\ qr.q[1] % 2 = 1)
        THEN BAdd(qr.q, <<1>>) ELSE qr.q))

(***************************************************************************)
(* A double: [k |-> "num", s |-> sign, m |-> significand, e |-> exponent]  *)
(* of value s * m * 2^e with 2^52 <= m < 2^53 (less for a subnormal,       *)
(* m = <<>> for 0.0), or k "inf", or k "nan".                              *)
(***************************************************************************)
FZero(s) == [k |-> "num", s |-> s, m |-> <<>>, e |-> 0]
FInf(s) == [k |-> "inf", s |-> s, m |-> <<>>, e |-> 0]
FNaN == [k |-> "nan", s |-> 1, m |-> <<>>, e |-> 0]

\* floor(log2(n / d)) for n, d > 0
Log2Floor(n, d) ==
    Let1(BitLen(n) - BitLen(d), LAMBDA l :
        IF l >= 0 THEN (IF BCmp(n, BShl(d, l)) < 0 THEN l - 1 ELSE l)
        ELSE (IF BCmp(BShl(n, -l), d) < 0 THEN l - 1 ELSE l))

\* the double nearest s * (n / d) * 2^x, for n, d > 0: round to nearest,
\* ties to even, gradual underflow below 2^-1022, infinity from 2^1024
FRound(s, n, d, x) ==
    Let1(Log2Floor(n, d) + x, LAMBDA top :
    Let1(IF top - 52 >= -1074 THEN top - 52 ELSE -1074, LAMBDA et :
    Let1(IF x >= et THEN BRoundDiv(BShl(n, x - et), d)
         ELSE BRoundDiv(n, BShl(d, et - x)), LAMBDA m0 :
    \* a carry out of the 53 bits leaves 2^53
    Let1(IF BitLen(m0) > 53 THEN [m |-> BDivMod(m0, <<2>>).q, e |-> et + 1]
         ELSE [m |-> m0, e |-> et], LAMBDA r :
        IF r.m = <<>> THEN FZero(s)
        ELSE IF r.e + BitLen(r.m) - 1 > 1023 THEN FInf(s)
        ELSE [k |-> "num", s |-> s, m |-> r.m, e |-> r.e]))))

\* float() of the decimal numeral n / d, d a power of ten
FromRatio(n, d) ==
    IF n = 0 THEN FZero(1)
    ELSE FRound(IF n < 0 THEN -1 ELSE 1, Big(IF n < 0 THEN -n ELSE n), Big(d), 0)

\* a / b for finite a and b, b # 0.0
FDiv(a, b) ==
    Let1(a, LAMBDA a1 : Let1(b, LAMBDA b1 :
        IF a1.m = <<>> THEN FZero(a1.s * b1.s)
        ELSE FRound(a1.s * b1.s, a1.m, b1.m, a1.e - b1.e)))

\* a * b for finite a and b
FMul(a, b) ==
    Let1(a, LAMBDA a1 : Let1(b, LAMBDA b1 :
        IF a1.m = <<>> \/ b1.m = <<>> THEN FZero(a1.s * b1.s)
        ELSE Let1(BMul(a1.m, b1.m), LAMBDA p :
                 FRound(a1.s * b1.s, p, <<1>>, a1.e + b1.e))))

\* the sign of a - n / d for integers n >= 0, d > 0 and a not NaN
FCmpRatio(a, n, d) ==
    Let1(a, LAMBDA a1 :
        CASE a1.k = "inf" -> a1.s
          [] a1.m = <<>> -> IF n = 0 THEN 0 ELSE -1
          [] a1.s < 0 -> -1
          [] OTHER ->
                IF a1.e >= 0 THEN BCmp(BShl(BMul(a1.m, Big(d)), a1.e), Big(n))
                ELSE BCmp(BMul(a1.m, Big(d)), BShl(Big(n), -a1.e)))

\* a < n / d and a > n / d as Python compares floats (false when a is NaN)
FLtRatio(a, n, d) == Let1(a, LAMBDA a1 : a1.k # "nan" /\ FCmpRatio(a1, n, d) < 0)
FGtRatio(a, n, d) == Let1(a, LAMBDA a1 : a1.k # "nan" /\ FCmpRatio(a1, n, d) > 0)

\* round(a, 2) of a finite a, in 1/100: the multiple of 0.01 nearest to a
FRound2(a) ==
    Let1(a, LAMBDA a1 :
        a1.s * BigToInt(IF a1.e >= 0 THEN BShl(BMulSmall(a1.m, 100), a1.e)
                        ELSE BRoundDiv(BMulSmall(a1.m, 100), BShl(<<1>>, -a1.e))))

(***************************************************************************)
(* BMI                                                                     *)
(***************************************************************************)
\* float("1e-200") and float("1e200")
Float1em200 == [k |-> "num", s |-> 1, m |-> <<30636, 10909, 31304, 195>>, e |-> -717]
Float1e200 == [k |-> "num", s |-> 1, m |-> <<25178, 12206, 7267, 167>>, e |-> 612]

\* the double safe_float returned, from its value in 1/unit
ToFloat(x, unit) ==
    CASE x.k = "tiny" -> Float1em200
      [] x.k = "huge" -> Float1e200
      [] OTHER -> FromRatio(x.v, unit)

\* height_m = height / 100 if height > 5 else height
height_m(height) ==
    Let1(height, LAMBDA h :
        IF FGtRatio(h, 5, 1) THEN FDiv(h, FromRatio(100, 1)) ELSE h)

\* weight / (height_m ** 2) if height_m > 0 else NaN, for Height in 1/10 and
\* Weight in 1; ** raises OverflowError when the power overflows and /
\* raises ZeroDivisionError when the divisor is 0.0
bmi_of(height, weight) ==
    Let1(height_m(ToFloat(height, 10)), LAMBDA hm :
        IF ~FGtRatio(hm, 0, 1) THEN FNaN
        ELSE Let1(FMul(hm, hm), LAMBDA sq :
                 IF sq.k = "inf" THEN [FNaN EXCEPT !.k = "OverflowError"]
                 ELSE IF sq.m = <<>> THEN [FNaN EXCEPT !.k = "ZeroDivisionError"]
                 ELSE FDiv(ToFloat(weight, 1), sq)))

\* the if / elif chain on bmi: "Underweight" U+9AD4 U+91CD U+904E U+8F15,
\* "Normal" U+6B63 U+5E38, "OverweightPre", "ObeseModerate", "ObeseSevere"
bmi_status_of(bmi) ==
    IF FLtRatio(bmi, 37, 2) THEN "Underweight"
    ELSE IF FLtRatio(bmi, 23, 1) THEN "Normal"
    ELSE IF FLtRatio(bmi, 25, 1) THEN "OverweightPre"
    ELSE IF FLtRatio(bmi, 30, 1) THEN "ObeseModerate"
    ELSE "ObeseSevere"

\* round(bmi, 2), in 1/100
bmi_round2(bmi) ==
    CASE bmi.k = "nan" -> NaN
      [] bmi.k = "inf" -> [k |-> "inf", v |-> bmi.s]
      [] OTHER -> Num(FRound2(bmi))

\* the Height and Weight attributes the model draws from
HeightSamples == {Missing, Dec(20), Dec(1600), Dec(2000), Tiny, Huge}
WeightSamples == {Text, Dec(64), Dec(73), Dec(74), Dec(92), Dec(100), Dec(120)}

\* lines 306-318 for each sampled height and weight: bmi, bmi_status and the
\* rounded bmi of the row
BmiTable ==
    [height \in {safe_float(x) : x \in HeightSamples},
     weight \in {safe_float(x) : x \in WeightSamples} |->
        Let1(bmi_of(height, weight), LAMBDA bmi :
            IF bmi.k \in {"OverflowError", "ZeroDivisionError"}
            THEN [bmi |-> bmi, bmi_status |-> "", BMI |-> NaN]
            ELSE [bmi |-> bmi, bmi_status |-> bmi_status_of(bmi),
                  BMI |-> bmi_round2(bmi)])]

(***************************************************************************)
(* ANS age                                                                 *)
(***************************************************************************)
\* the midpoint truncated instead of rounded
ans_age_trunc(ans_age_min, ans_age_max) ==
    IF ans_age_min > 0 /\ ans_age_max > 0
    THEN Num((ans_age_min + ans_age_max) \div 2)
    ELSE NaN

\* round((ans_age_min + ans_age_max) / 2) if both > 0 else NaN
ans_age_of(ans_age_min, ans_age_max) ==
    IF ans_age_min > 0 /\ ans_age_max > 0
    THEN Num(RoundHalfEven(ans_age_min + ans_age_max, 2))
    ELSE NaN

\* ans_age - age if not isnan(ans_age) else NaN
ans_age_diff_of(ans_age, age) ==
    IF IsNaN(ans_age) THEN NaN ELSE Num(ans_age.v - age)

(***************************************************************************)
(* Input text.  A text is a sequence of lexical pieces:                    *)
(*   "ws"          white space                                             *)
(*   "tx"          character data that is no markup and no attribute      *)
(*   "<Patient"    the start of a Patient tag with its attributes          *)
(*   "Patient "    the same without the leading angle bracket              *)
(*   "/>"  ">"     the end of a self-closing tag, of a start tag           *)
(*   "</Patient>"  "<Root>"  "</Root>"                                     *)
(* Every Patient tag of a text carries the attributes `attrib`.            *)
(***************************************************************************)
Pieces == {"ws", "tx", "<Patient", "Patient ", "/>", ">",
           "</Patient>", "<Root>", "</Root>"}

\* the pieces that hold the character '>'
HasGt == {"/>", ">", "</Patient>", "<Root>", "</Root>"}

RECURSIVE LStripWs(_)
LStripWs(s) == IF s # <<>> /\ Head(s) = "ws" THEN LStripWs(Tail(s)) ELSE s

RECURSIVE RStripWs(_)
RStripWs(s) ==
    IF s # <<>> /\ s[Len(s)] = "ws" THEN RStripWs(SubSeq(s, 1, Len(s) - 1)) ELSE s

Contains(s, p) == \E i \in 1..Len(s) : s[i] = p

\* the index of the first piece after i that holds '>', 0 if none
RECURSIVE FirstGt(_, _)
FirstGt(s, i) ==
    IF i >= Len(s) THEN 0
    ELSE IF s[i + 1] \in HasGt THEN i + 1
    ELSE FirstGt(s, i + 1)

\* re.search(r"<Patient\b[^>]*\/>", s): the leftmost match, <<>> if none
RegexSearch(s) ==
    LET hits == {i \in 1..Len(s) :
                    s[i] = "<Patient" /\ FirstGt(s, i) # 0 /\ s[FirstGt(s, i)] = "/>"}
    IN  IF hits = {} THEN <<>>
        ELSE LET i == CHOOSE h \in hits : \A g \in hits : h <= g
             IN  SubSeq(s, i, FirstGt(s, i))

\* _extract_patient_xml(xml_text)
extract_patient_xml(text) ==
    LET s == RStripWs(LStripWs(text))
    IN  IF s = <<>> THEN <<>>
        ELSE IF Contains(s, "<Patient")
             THEN IF RegexSearch(s) # <<>> THEN RegexSearch(s) ELSE s
        ELSE IF s[1] = "Patient " THEN <<"<Patient">> \o Tail(s)
        ELSE s

\* well-formedness as ET.fromstring decides it: one root element; inside a
\* tag only white space may follow the attributes; '>' is character data
\* between tags
RECURSIVE IsElem(_), IsContent(_)
IsElem(s) ==
    /\ Len(s) >= 2
    /\ \/ /\ s[1] = "<Root>"
          /\ s[Len(s)] = "</Root>"
          /\ IsContent(SubSeq(s, 2, Len(s) - 1))
       \/ /\ s[1] = "<Patient"
          /\ LET r == LStripWs(Tail(s))
             IN  \/ r = <<"/>">>
                 \/ /\ Len(r) >= 2
                    /\ r[1] = ">"
                    /\ r[Len(r)] = "</Patient>"
                    /\ IsContent(SubSeq(r, 2, Len(r) - 1))

IsContent(s) ==
    \/ s = <<>>
    \/ /\ s # <<>>
       /\ s[1] \in {"ws", "tx", "Patient ", ">", "/>"}
       /\ IsContent(Tail(s))
    \/ \E k \in 2..Len(s) :
          IsElem(SubSeq(s, 1, k)) /\ IsContent(SubSeq(s, k + 1, Len(s)))

(***************************************************************************)
(* parse_hrv_xml_to_row                                                    *)
(***************************************************************************)
Raise(exc, msg) == [kind |-> "raise", exc |-> exc, msg |-> msg, row |-> <<>>]
Return(row) == [kind |-> "row", exc |-> "", msg |-> "", row |-> row]
Pending == [kind |-> "pending", exc |-> "", msg |-> "", row |-> <<>>]

\* lines 273-375: the row derived from the attributes of the Patient element
derive_row(attr) ==
    LET sex == attr.Sex
        height == safe_float(AttrGet(attr, "Height"))
        weight == safe_float(AttrGet(attr, "Weight"))
        age == safe_int(AttrGet(attr, "Age"))
        tp == safe_float(AttrGet(attr, "TP"))
        vl == safe_float(AttrGet(attr, "VL"))
        lf == safe_float(AttrGet(attr, "LF"))
        hf == safe_float(AttrGet(attr, "HF"))
        ln_tp == safe_ln(tp)
        ln_ratio == IF hf.v > 0 THEN safe_ln_quot(lf.v, hf.v) ELSE NaN
        tp_q == tp_quality(tp, lf, hf, vl)
        ln_tpq == safe_ln_tpq(tp, lf, hf, vl)
        ans_age_min == safe_int(AttrGet(attr, "ANSAgeMIN"))
        ans_age_max == safe_int(AttrGet(attr, "ANSAgeMAX"))
        ans_age == ans_age_of(ans_age_min, ans_age_max)
        ans_age_diff == ans_age_diff_of(ans_age, age)
        constitution == classify_constitution(ln_tp, ln_ratio, PyStr(sex), PyInt(age))
        d_prime == compute_weighted_distance(ln_ratio, ln_tpq, age, sex)
    IN  Let1(BmiTable[height, weight], LAMBDA b :
            IF b.bmi.k \in {"OverflowError", "ZeroDivisionError"}
            THEN Raise(b.bmi.k, "")
            ELSE Return([
                Sex |-> sex, Height |-> height, Weight |-> weight, Age |-> age,
                TP |-> tp, VL |-> vl, LF |-> lf, HF |-> hf,
                ln_TP |-> Round2Micro(ln_tp), ln_LF_HF |-> Round2Micro(ln_ratio),
                TP_Q |-> Round2(tp_q), ln_TPQ |-> Round2Micro(ln_tpq),
                Constitution |-> constitution,
                BMI |-> b.BMI, BMI_Status |-> b.bmi_status,
                ANS_Age |-> ans_age, ANS_Age_Diff |-> ans_age_diff,
                Healthy_Dprime |-> d_prime ]))

\* parse_hrv_xml_to_row(xml_text), the Patient tags carrying attr
parse_hrv_xml_to_row(text, attr) ==
    LET xml_clean == extract_patient_xml(text)
    IN  IF xml_clean = <<>> THEN Raise("ValueError", "empty")
        ELSE IF ~IsElem(xml_clean) THEN Raise("ParseError", "")
        ELSE IF xml_clean[1] # "<Patient" /\ ~Contains(xml_clean, "<Patient")
             THEN Raise("ValueError", "no Patient")
        ELSE derive_row(attr)

(***************************************************************************)
(* build_overall_summary                                                   *)
(***************************************************************************)
Clause(c, vals, txt) == [c |-> c, vals |-> vals, txt |-> txt]
Part(cond, clause) == IF cond THEN <<clause>> ELSE <<>>

\* lines 410-420: the energy-quality clause
energy_clause(row) ==
    LET mu == get_tp_mu_sigma(row.Age, PyStr(row.Sex))[1]
        diff == row.ln_TPQ.v * 10 - mu
        desc == IF Abs(diff) < 300 THEN "average"
                ELSE IF diff > 0 THEN "above" ELSE "below"
    IN  Clause("energy", <<Num(mu)>>, desc)

\* lines 423-433: the distance clause
distance_clause(row) ==
    LET d_prime == row.Healthy_Dprime
        dist_desc == IF FLt(d_prime, Num(100)) THEN "very close"
                     ELSE IF FLt(d_prime, Num(200)) THEN "mild deviation"
                     ELSE "marked deviation"
    IN  Clause("distance", <<d_prime>>, dist_desc)

\* lines 440-455: the ANS-age clause
ans_clause(row) ==
    LET ans_age == row.ANS_Age
        ans_age_diff == row.ANS_Age_Diff
    IN  IF IsNaN(ans_age_diff) THEN Clause("ans_age", <<ans_age>>, "")
        ELSE IF ans_age_diff.v > 0
             THEN Clause("ans_age", <<ans_age, Num(Abs(ans_age_diff.v))>>, "higher")
        ELSE IF ans_age_diff.v < 0
             THEN Clause("ans_age", <<ans_age, Num(Abs(ans_age_diff.v))>>, "lower")
        ELSE Clause("ans_age", <<ans_age>>, "matched")

\* build_overall_summary with the BMI clause appended whether or not BMI is NaN
build_overall_summary_bmi(row) ==
    <<Clause("identity", <<Num(row.Age)>>, "")>>
    \o <<Clause("classification", <<>>, row.Constitution)>>
    \o Part(~IsNaN(row.ln_TPQ), energy_clause(row))
    \o Part(~IsNaN(row.Healthy_Dprime), distance_clause(row))
    \o <<Clause("bmi", <<row.BMI>>, row.BMI_Status)>>
    \o Part(~IsNaN(row.ANS_Age), ans_clause(row))

\* build_overall_summary(row): the clauses appended to parts, each with the
\* numbers and the word it prints
build_overall_summary(row) ==
    <<Clause("identity", <<Num(row.Age)>>, "")>>
    \o <<Clause("classification", <<>>, row.Constitution)>>
    \o Part(~IsNaN(row.ln_TPQ), energy_clause(row))
    \o Part(~IsNaN(row.Healthy_Dprime), distance_clause(row))
    \o Part(~IsNaN(row.BMI), Clause("bmi", <<row.BMI>>, row.BMI_Status))
    \o Part(~IsNaN(row.ANS_Age), ans_clause(row))

(***************************************************************************)
(* Bounds and input sets                                                   *)
(***************************************************************************)
MaxAge == 201
MaxTextLen == 4

Sexes == {Male, Female, <<>>}
CoreSexes == {PyNoneStr, PyStr(<<>>), PyStr(Male), PyStr(Female),
              PyStr(<<" ", "F", " ">>), PyStr(<<"X">>)}

AllMus == {TP_BASE(s)[i][2] : s \in {Male, Female}, i \in 1..6} \cup {Fallback[1]}
LnTpSamples == {NaN} \cup UNION {{Num(m * 1000 - 1), Num(m * 1000)} : m \in AllMus}
LnRatioSamples == {NaN, Num(-1), Num(0), Num(1)}
ClassifyAges == {PyNoneInt} \cup {PyInt(a) : a \in {0, 29, 30, 40, 69, 70, 200, MaxAge}}

AttrSet ==
    [ Sex : Sexes,
      Age : {Missing, Dec(359)},
      Height : HeightSamples,
      Weight : WeightSamples,
      TP : {Missing, Dec(700), Dec(900)},
      VL : {Missing, Dec(150)},
      LF : {Missing, Dec(350), Dec(400)},
      HF : {Missing, Text, Dec(0), Dec(-5), Dec(400)},
      ANSAgeMIN : {Dec(0), Dec(410), Dec(420)},
      ANSAgeMAX : {Text, Dec(440), Dec(450)} ]

\* spec.md end-to-end scenario 1 with a 2 m / 92 kg body
Scenario1 ==
    [ Sex |-> Male, Age |-> Dec(359), Height |-> Dec(2000), Weight |-> Dec(92),
      TP |-> Dec(900), VL |-> Dec(150), LF |-> Dec(400), HF |-> Dec(400),
      ANSAgeMIN |-> Dec(410), ANSAgeMAX |-> Dec(440) ]

RECURSIVE SeqsUpTo(_, _)
SeqsUpTo(S, n) ==
    IF n = 0 THEN {<<>>}
    ELSE LET shorter == SeqsUpTo(S, n - 1)
         IN  shorter \cup {Append(t, p) : t \in shorter, p \in S}

Texts == SeqsUpTo(Pieces, MaxTextLen)
PatientTag == <<"<Patient", "/>">>

(***************************************************************************)
(* Direct calls of get_tp_mu_sigma and classify_constitution               *)
(***************************************************************************)
NoRet == [k |-> "none", label |-> "", pair |-> <<0, 0>>]

CoreIdle == call = [fn |-> "none", ln_tp |-> NaN, ln_ratio |-> NaN,
                    sex |-> PyNoneStr, age |-> PyNoneInt] /\ ret = NoRet

ParseIdle == xml_text = <<>> /\ attrib = Scenario1 /\ result = Pending /\ summary = <<>>

CallGetTpMuSigma ==
    /\ call.fn = "get_tp_mu_sigma"
    /\ ret = NoRet
    /\ ret' = [k |-> "pair", label |-> "", pair |-> get_tp_mu_sigma(call.age.v, call.sex)]
    /\ UNCHANGED <<call, parseVars, webVars>>

CallClassify ==
    /\ call.fn = "classify_constitution"
    /\ ret = NoRet
    /\ ret' = [k |-> "label", pair |-> <<0, 0>>,
               label |-> classify_constitution(call.ln_tp, call.ln_ratio, call.sex, call.age)]
    /\ UNCHANGED <<call, parseVars, webVars>>

(***************************************************************************)
(* parse_hrv_xml_to_row and build_overall_summary on one document          *)
(***************************************************************************)
Parse ==
    /\ result = Pending
    /\ result' = parse_hrv_xml_to_row(xml_text, attrib)
    /\ UNCHANGED <<xml_text, attrib, summary, coreVars, webVars>>

Summarize ==
    /\ result.kind = "row"
    /\ summary = <<>>
    /\ summary' = build_overall_summary(result.row)
    /\ UNCHANGED <<xml_text, attrib, result, coreVars, webVars>>

(***************************************************************************)
(* app.py: the routes, one thread per request in flight                    *)
(***************************************************************************)
NumClients == 2
Clients == 1..NumClients

None == [some |-> FALSE, val |-> <<>>]
Some(x) == [some |-> TRUE, val |-> x]

\* spec.md end-to-end scenario 2: HF = 0, another patient
Scenario2 ==
    [ Sex |-> Female, Age |-> Missing, Height |-> Dec(20), Weight |-> Dec(74),
      TP |-> Dec(700), VL |-> Dec(150), LF |-> Dec(350), HF |-> Dec(0),
      ANSAgeMIN |-> Dec(0), ANSAgeMAX |-> Text ]

WebTexts == {<<"ws">>, <<"tx">>, PatientTag}
\* scenario 1 with TP="inf"
Scenario3 == [Scenario1 EXCEPT !.TP = Infinity]

WebAttrs == {Scenario1, Scenario2, Scenario3}
WebFiles == {None, Some(PatientTag)}

\* generate_quadrant_plot_base64(row), lines 480-485 and 550-551: an infinite
\* x or y becomes an axis limit, and set_xlim / set_ylim raise ValueError on
\* a limit that is not finite
ChartRaises(row) == row.ln_LF_HF.k = "inf" \/ row.ln_TP.k = "inf"

\* generate_quadrant_plot_base64(row): the image is a function of the fields read
generate_quadrant_plot_base64(row) ==
    [x |-> row.ln_LF_HF, y |-> row.ln_TP, age |-> row.Age, sex |-> row.Sex]

\* get_constitution_advice(c): one text per definite label, one fallback text
get_constitution_advice(c) == IF c \in Labels4 THEN c ELSE "fallback"

NoLocal == [row |-> None, quad_img_b64 |-> None, advice |-> None]
NoResp == [kind |-> "none", status |-> 0, report |-> NoLocal, own |-> NoLocal]
Page(kind, status) == [kind |-> kind, status |-> status, report |-> NoLocal, own |-> NoLocal]

WebIdle ==
    /\ last_row = None /\ last_quad_img_b64 = None /\ last_advice = None
    /\ pc = [c \in Clients |-> "idle"]
    /\ local = [c \in Clients |-> NoLocal]
    /\ resp = [c \in Clients |-> NoResp]
    /\ mine = [c \in Clients |-> NoLocal]
    /\ parsed_row = None

\* /health
Health(c) ==
    /\ pc[c] = "idle"
    /\ resp' = [resp EXCEPT ![c] = Page("OK", 200)]
    /\ UNCHANGED <<last_row, last_quad_img_b64, last_advice, pc, local, mine,
                   coreVars, parseVars, parsed_row>>

\* GET /
IndexGet(c) ==
    /\ pc[c] = "idle"
    /\ resp' = [resp EXCEPT ![c] = Page("index", 200)]
    /\ UNCHANGED <<last_row, last_quad_img_b64, last_advice, pc, local, mine,
                   coreVars, parseVars, parsed_row>>

\* the text handed to the parser (lines 41, 48-50) and what parsing it gives
PostInputs == [xml_file : WebFiles, form_text : WebTexts, attr : WebAttrs]
PostText(i) == IF i.xml_file.some THEN i.xml_file.val ELSE RStripWs(LStripWs(i.form_text))
PostParsed == [i \in PostInputs |-> parse_hrv_xml_to_row(PostText(i), i.attr)]

\* POST /, lines 39-60: up to the computed row, chart and advice
IndexPost(c) ==
    /\ pc[c] = "idle"
    /\ \E i \in PostInputs :
          IF ~i.xml_file.some /\ RStripWs(LStripWs(i.form_text)) = <<>>
          THEN /\ resp' = [resp EXCEPT ![c] = Page("index_error_no_input", 200)]
               /\ UNCHANGED <<pc, local, parsed_row>>
          ELSE \E parsed \in {PostParsed[i]} :
               IF parsed.kind = "raise"
               THEN /\ resp' = [resp EXCEPT ![c] = Page("index_error_parse", 200)]
                    /\ UNCHANGED <<pc, local, parsed_row>>
               ELSE \E row \in {parsed.row} :
                    \* line 59 raises and Flask answers 500
                    IF ChartRaises(row)
                    THEN /\ resp' = [resp EXCEPT ![c] = Page("error", 500)]
                         /\ parsed_row' = Some(row)
                         /\ UNCHANGED <<pc, local>>
                    ELSE
                       /\ parsed_row' = Some(row)
                       /\ local' = [local EXCEPT ![c] =
                              [row |-> Some(row),
                               quad_img_b64 |-> Some(generate_quadrant_plot_base64(row)),
                               advice |-> Some(get_constitution_advice(row.Constitution))]]
                       /\ pc' = [pc EXCEPT ![c] = "store_row"]
                       /\ UNCHANGED resp
    /\ UNCHANGED <<last_row, last_quad_img_b64, last_advice, mine, coreVars, parseVars>>

\* line 63
StoreRow(c) ==
    /\ pc[c] = "store_row"
    /\ last_row' = local[c].row
    /\ pc' = [pc EXCEPT ![c] = "store_img"]
    /\ UNCHANGED <<last_quad_img_b64, last_advice, local, resp, mine,
                   coreVars, parseVars, parsed_row>>

\* line 64
StoreImg(c) ==
    /\ pc[c] = "store_img"
    /\ last_quad_img_b64' = local[c].quad_img_b64
    /\ pc' = [pc EXCEPT ![c] = "store_advice"]
    /\ UNCHANGED <<last_row, last_advice, local, resp, mine, coreVars, parseVars, parsed_row>>

\* lines 65-73: the last store, then the report page of this request
StoreAdvice(c) ==
    /\ pc[c] = "store_advice"
    /\ last_advice' = local[c].advice
    /\ resp' = [resp EXCEPT ![c] =
                   [kind |-> "report", status |-> 200, report |-> local[c], own |-> local[c]]]
    /\ mine' = [mine EXCEPT ![c] = local[c]]
    /\ local' = [local EXCEPT ![c] = NoLocal]
    /\ pc' = [pc EXCEPT ![c] = "idle"]
    /\ UNCHANGED <<last_row, last_quad_img_b64, coreVars, parseVars, parsed_row>>

\* /export_jpg, lines 241-242
ExportCheck(c) ==
    /\ pc[c] = "idle"
    /\ IF ~last_row.some
       THEN /\ resp' = [resp EXCEPT ![c] = Page("text", 400)]
            /\ UNCHANGED pc
       ELSE /\ pc' = [pc EXCEPT ![c] = "export_jpg"]
            /\ UNCHANGED resp
    /\ UNCHANGED <<last_row, last_quad_img_b64, last_advice, local, mine,
                   coreVars, parseVars, parsed_row>>

\* /export_jpg, lines 244-258: the report drawn from the three globals
ExportJpg(c) ==
    /\ pc[c] = "export_jpg"
    /\ resp' = [resp EXCEPT ![c] =
                   [kind |-> "jpg", status |-> 200, own |-> mine[c],
                    report |-> [row |-> last_row, quad_img_b64 |-> last_quad_img_b64,
                                advice |-> last_advice]]]
    /\ pc' = [pc EXCEPT ![c] = "idle"]
    /\ UNCHANGED <<last_row, last_quad_img_b64, last_advice, local, mine,
                   coreVars, parseVars, parsed_row>>

(***************************************************************************)
(* Specifications                                                          *)
(***************************************************************************)
\* direct calls of the two pure functions
InitCore ==
    /\ \/ call \in [fn : {"get_tp_mu_sigma"}, ln_tp : {NaN}, ln_ratio : {NaN},
                    sex : CoreSexes, age : {PyInt(a) : a \in -1..MaxAge}]
       \/ call \in [fn : {"classify_constitution"}, ln_tp : LnTpSamples,
                    ln_ratio : LnRatioSamples, sex : CoreSexes, age : ClassifyAges]
    /\ ret = NoRet
    /\ ParseIdle
    /\ WebIdle

NextCore == CallGetTpMuSigma \/ CallClassify

SpecCore == InitCore /\ [][NextCore]_vars

\* one document parsed and summarised
Init ==
    /\ \/ xml_text = PatientTag /\ attrib \in AttrSet
       \/ xml_text \in Texts /\ attrib = Scenario1
    /\ result = Pending
    /\ summary = <<>>
    /\ CoreIdle
    /\ WebIdle

Next == Parse \/ Summarize

Spec == Init /\ [][Next]_vars

\* the web application under concurrent requests
InitWeb == CoreIdle /\ ParseIdle /\ WebIdle

NextWeb ==
    \E c \in Clients :
        \/ Health(c)
        \/ IndexGet(c)
        \/ IndexPost(c)
        \/ StoreRow(c)
        \/ StoreImg(c)
        \/ StoreAdvice(c)
        \/ ExportCheck(c)
        \/ ExportJpg(c)

SpecWeb == InitWeb /\ [][NextWeb]_vars

\* the web application serving one request at a time
Sequential(c) == \A d \in Clients \ {c} : pc[d] = "idle"

NextSeq ==
    \E c \in Clients :
        \/ Sequential(c) /\ Health(c)
        \/ Sequential(c) /\ IndexGet(c)
        \/ Sequential(c) /\ IndexPost(c)
        \/ Sequential(c) /\ StoreRow(c)
        \/ Sequential(c) /\ StoreImg(c)
        \/ Sequential(c) /\ StoreAdvice(c)
        \/ Sequential(c) /\ ExportCheck(c)
        \/ Sequential(c) /\ ExportJpg(c)

SpecSeq == InitWeb /\ [][NextSeq]_vars

(***************************************************************************)
(* Properties                                                              *)
(***************************************************************************)
ClassifyReturned == call.fn = "classify_constitution" /\ ret.k = "label"
BaselineReturned == call.fn = "get_tp_mu_sigma" /\ ret.k = "pair"
Parsed == result # Pending
IsRow == result.kind = "row"

\* C1: classify_constitution returns one of the four definite labels for
\* every finite (lnTP, lnRatio), whatever age and sex, and the
\* insufficient-data label whenever lnTP or lnRatio is NaN.
C1_ClassifierExhaustive ==
    ClassifyReturned =>
        /\ (IsNaN(call.ln_tp) \/ IsNaN(call.ln_ratio)) => ret.label = Insufficient
        /\ (~IsNaN(call.ln_tp) /\ ~IsNaN(call.ln_ratio)) => ret.label \in Labels4

C1_Witness ==
    /\ ClassifyReturned
    /\ IsNaN(call.ln_ratio)
    /\ call.ln_tp = Num(6800000)
    /\ call.age = PyInt(29)
    /\ ret.label = Insufficient

\* the raw-valued axes of the row in result, recomputed from its raw fields
RowLnTp == safe_ln(result.row.TP)
RowLnRatio ==
    IF result.row.HF.v > 0 THEN safe_ln_quot(result.row.LF.v, result.row.HF.v) ELSE NaN

\* C2: the Constitution of a row with both axes defined is the quadrant of
\* (lnTP, lnRatio) against the baseline mean get_tp_mu_sigma returns for the
\* row's own Age and Sex, Age 0 included.
C2_OwnBaselineMean ==
    (IsRow /\ ~IsNaN(RowLnTp) /\ ~IsNaN(RowLnRatio)) =>
        LET mu == get_tp_mu_sigma(result.row.Age, PyStr(result.row.Sex))[1]
        IN  result.row.Constitution =
                (IF RowLnTp.v >= mu * 1000 /\ RowLnRatio.v >= 0 THEN "YangShi"
                 ELSE IF RowLnTp.v >= mu * 1000 /\ RowLnRatio.v < 0 THEN "YinShi"
                 ELSE IF RowLnTp.v < mu * 1000 /\ RowLnRatio.v >= 0 THEN "YangXu"
                 ELSE "YinXu")

\* C3: get_tp_mu_sigma returns the first bracket, in ascending order, whose
\* upper bound is >= age, for every integer age; the fallback (6.0, 0.5) is
\* never returned.
C3_FirstBracketNeverFallback ==
    BaselineReturned =>
        LET s0 == Strip(StrOr(call.sex, <<>>))
            t == TP_BASE(IF InTP_BASE(s0) THEN s0 ELSE Male)
        IN  /\ \E i \in 1..Len(t) :
                  /\ call.age.v <= t[i][1]
                  /\ \A j \in 1..(i - 1) : call.age.v > t[j][1]
                  /\ ret.pair = <<t[i][2], t[i][3]>>
            /\ ret.pair # Fallback

HfNotPositive ==
    \/ attrib.HF \in {Missing, Text}
    \/ attrib.HF.t = "dec" /\ attrib.HF.v <= 0

\* C4: a structurally valid record whose HF is 0, absent, non-numeric or
\* negative is parsed without failure, with ln_LF_HF NaN and the
\* insufficient-data Constitution, whatever the other attributes.
C4_HfZeroInsufficient ==
    (Parsed /\ xml_text = PatientTag /\ HfNotPositive) =>
        /\ IsRow
        /\ IsNaN(result.row.ln_LF_HF)
        /\ result.row.Constitution = Insufficient

\* the normalized height of the row in result, in 1/1000
RowHeightMm ==
    IF result.row.Height.v > 50 THEN result.row.Height.v ELSE result.row.Height.v * 100

\* C5: for a row whose normalized height is positive, BMI_Status is the
\* bucket of weight / height_m^2 with lower bounds 18.5, 23, 25 and 30
\* inclusive.
C5_BmiBuckets ==
    (IsRow /\ result.row.Height.k = "num" /\ RowHeightMm > 0) =>
        LET n2 == 2 * result.row.Weight.v * 1000000
            d == RowHeightMm * RowHeightMm
            st == result.row.BMI_Status
        IN  /\ st = "Underweight" <=> n2 < 37 * d
            /\ st = "Normal" <=> (37 * d <= n2 /\ n2 < 46 * d)
            /\ st = "OverweightPre" <=> (46 * d <= n2 /\ n2 < 50 * d)
            /\ st = "ObeseModerate" <=> (50 * d <= n2 /\ n2 < 60 * d)
            /\ st = "ObeseSevere" <=> 60 * d <= n2

RawZero(name) == attrib[name].t \in {"missing", "text"} => result.row[name] = Num(0)

\* C6: every record whose Patient element is present is parsed to a row,
\* whatever its attribute values; a derived quantity is NaN exactly when it
\* cannot be computed and a missing or non-numeric raw attribute is 0.
C6_NumericGapsNeverFatal ==
    (Parsed /\ xml_text = PatientTag) =>
        /\ IsRow
        /\ \A name \in {"Height", "Weight", "TP", "VL", "LF", "HF"} : RawZero(name)
        /\ attrib.Age.t \in {"missing", "text"} => result.row.Age = 0
        /\ IsNaN(result.row.ln_TP) <=> result.row.TP.v <= 0
        /\ IsNaN(result.row.ln_LF_HF) <=> (result.row.HF.v <= 0 \/ result.row.LF.v <= 0)
        /\ IsNaN(result.row.TP_Q) <=>
               result.row.LF.v + result.row.HF.v + result.row.VL.v <= 0
        /\ IsNaN(result.row.ln_TPQ) <=>
               (\/ result.row.LF.v + result.row.HF.v + result.row.VL.v <= 0
                \/ result.row.TP.v * (result.row.LF.v + result.row.HF.v) <= 0)
        /\ IsNaN(result.row.BMI) <=> RowHeightMm <= 0
        /\ IsNaN(result.row.ANS_Age) <=> IsNaN(result.row.ANS_Age_Diff)
        /\ IsNaN(result.row.Healthy_Dprime) <=>
               (IsNaN(result.row.ln_LF_HF) \/ IsNaN(result.row.ln_TPQ))

StrippedText == RStripWs(LStripWs(xml_text))
NoPatientElement ==
    ~(Contains(StrippedText, "<Patient") \/ StrippedText[1] = "Patient ")

\* C7: parsing fails, with the parser's own error (ValueError) and no row,
\* exactly when the text is empty or holds no Patient element; every other
\* text gives a row.
C7_StructuralErrorsOnly ==
    (Parsed /\ attrib = Scenario1) =>
        IF StrippedText = <<>> \/ NoPatientElement
        THEN result.kind = "raise" /\ result.exc = "ValueError"
        ELSE IsRow

\* C8: the report an export returns to a client is built from the row,
\* chart and advice of that client's own most recent successful analysis.
C8_ExportOwnAnalysis ==
    \A c \in Clients : resp[c].kind = "jpg" => resp[c].report = resp[c].own

AnsMin == safe_int(AttrGet(attrib, "ANSAgeMIN"))
AnsMax == safe_int(AttrGet(attrib, "ANSAgeMAX"))

ClauseNames == [i \in 1..Len(summary) |-> summary[i].c]

\* C10: the summary holds, in this order, identity, classification, then
\* energy-quality iff ln_TPQ is defined, distance iff Healthy_Dprime is
\* defined, BMI iff BMI is defined, ANS-age iff ANS_Age is defined; and no
\* clause prints NaN.
C10_SummaryClauses ==
    summary # <<>> =>
        /\ ClauseNames =
               <<"identity", "classification">>
               \o (IF IsNaN(result.row.ln_TPQ) THEN <<>> ELSE <<"energy">>)
               \o (IF IsNaN(result.row.Healthy_Dprime) THEN <<>> ELSE <<"distance">>)
               \o (IF IsNaN(result.row.BMI) THEN <<>> ELSE <<"bmi">>)
               \o (IF IsNaN(result.row.ANS_Age) THEN <<>> ELSE <<"ans_age">>)
        /\ \A i \in 1..Len(summary) :
               \A j \in 1..Len(summary[i].vals) : ~IsNaN(summary[i].vals[j])

C10_Witness ==
    /\ summary # <<>>
    /\ attrib.ANSAgeMIN = Dec(0)
    /\ attrib.ANSAgeMAX = Dec(450)
    /\ ClauseNames = <<"identity", "classification", "energy", "distance", "bmi">>

\* C11: for a row whose normalized height is at most 0, BMI is NaN and
\* BMI_Status is none of the five BMI categories.
C11_NanBmiStatusUndefined ==
    (IsRow /\ result.row.Height.k = "num" /\ result.row.Height.v <= 0) =>
        /\ IsNaN(result.row.BMI)
        /\ result.row.BMI_Status \notin {"Underweight", "Normal", "OverweightPre",
                                          "ObeseModerate", "ObeseSevere"}

AllIdle == \A c \in Clients : pc[c] = "idle"
Cache == [row |-> last_row, quad_img_b64 |-> last_quad_img_b64, advice |-> last_advice]

\* the row, chart and advice of an analysis of row r, nothing for no row
AnalysisOf(r) ==
    IF ~r.some THEN NoLocal
    ELSE [row |-> r,
          quad_img_b64 |-> Some(generate_quadrant_plot_base64(r.val)),
          advice |-> Some(get_constitution_advice(r.val.Constitution))]

\* C12: with requests served one at a time, between requests last_row is
\* None until the first POST whose parse succeeds and then the row of the
\* latest such POST; a request answered without storing (GET, health, a POST
\* without input or whose parse fails) and an export leave the cache as it
\* is; an export answers 400 exactly when no parse has succeeded yet and
\* otherwise returns the latest successful analysis.
C12_SequentialCache ==
    /\ [](AllIdle => last_row = parsed_row)
    /\ [][ /\ (AllIdle /\ AllIdle') => UNCHANGED Cache
           /\ \A c \in Clients :
                /\ (pc[c] = "export_jpg" \/ pc'[c] = "export_jpg") => UNCHANGED Cache
                /\ (resp'[c] # resp[c] /\ resp'[c].status = 400) => ~parsed_row.some
                /\ (pc[c] = "idle" /\ pc'[c] = "export_jpg") => parsed_row.some
                /\ (pc[c] = "export_jpg" /\ pc'[c] = "idle") =>
                        resp'[c].report = AnalysisOf(parsed_row) ]_vars

====
